---- MODULE Spec2Model ----
(***************************************************************************)
(* Verification model of smartdoc_assistant_RAG/vector_store.py: the       *)
(* VectorDB class (chunk_text, build_index, retrieve, reset).              *)
(*                                                                         *)
(* A text is a sequence of one-character strings, so that len(), strip(),  *)
(* split() and " ".join() are computed character by character.  An         *)
(* embedding is an integer vector; the similarity FAISS computes           *)
(* (IndexFlatIP over L2-normalised vectors, i.e. the cosine) is compared   *)
(* exactly by cross-multiplying squares, never rounded.  Python's 0-based  *)
(* chunk position p is position p + 1 of a TLA+ sequence.                  *)
(***************************************************************************)
EXTENDS Integers, Sequences, FiniteSets, TLC

(***************************************************************************)
(* Class constants, vector_store.py:43-44                                  *)
(***************************************************************************)
MIN_CHUNK_LENGTH == 10
MAX_CHUNK_SIZE == 2000
DEFAULT_CHUNK_SIZE == 600
DEFAULT_OVERLAP == 50

(***************************************************************************)
(* Bounds of the model                                                     *)
(***************************************************************************)
\* chunk_size is drawn from 0..MaxChunkSizeArg and MAX_CHUNK_SIZE + 1
MaxChunkSizeArg == 2
\* overlap is drawn from -1..MaxOverlapArg
MaxOverlapArg == 1
\* top_k is drawn from 0..MaxTopK and 1000
MaxTopK == 2
\* a threshold is a rational n / ThresholdDen
ThresholdDen == 10

(***************************************************************************)
(* Python string primitives on character sequences                         *)
(***************************************************************************)
Rep(c, n) == [i \in 1..n |-> c]

Range(s) == {s[i] : i \in 1..Len(s)}

Min2(a, b) == IF a <= b THEN a ELSE b

IsSpace(c) == c = " "

RECURSIVE LStrip(_)
LStrip(s) ==
    IF s = <<>> THEN <<>>
    ELSE IF IsSpace(Head(s)) THEN LStrip(Tail(s)) ELSE s

RECURSIVE RStrip(_)
RStrip(s) ==
    IF s = <<>> THEN <<>>
    ELSE IF IsSpace(s[Len(s)]) THEN RStrip(SubSeq(s, 1, Len(s) - 1)) ELSE s

\* str.strip()
Strip(s) == RStrip(LStrip(s))

\* str.split(): the maximal runs of non-space characters, in order
RECURSIVE SplitFrom(_, _, _)
SplitFrom(s, word, acc) ==
    IF s = <<>> THEN (IF word = <<>> THEN acc ELSE Append(acc, word))
    ELSE IF IsSpace(Head(s))
         THEN SplitFrom(Tail(s), <<>>, IF word = <<>> THEN acc ELSE Append(acc, word))
         ELSE SplitFrom(Tail(s), Append(word, Head(s)), acc)

Split(s) == SplitFrom(s, <<>>, <<>>)

\* " ".join(words)
RECURSIVE Join(_)
Join(words) ==
    IF words = <<>> THEN <<>>
    ELSE IF Len(words) = 1 THEN words[1]
    ELSE words[1] \o <<" ">> \o Join(Tail(words))

\* words[i : j] of Python (0-based i, exclusive j, clipped to the list)
Slice(words, i, j) == SubSeq(words, i + 1, Min2(j, Len(words)))

\* list[idx] of Python, a negative idx counting from the end
PyItem(list, idx) == IF idx >= 0 THEN list[idx + 1] ELSE list[Len(list) + idx + 1]

(***************************************************************************)
(* _validate_text_input, _validate_chunk_parameters, chunk_text            *)
(***************************************************************************)
\* the message of the VectorDBError raised, or "ok"
ValidateTextInput(text) ==
    IF Strip(text) = <<>> THEN "Text cannot be empty or whitespace only"
    ELSE IF Len(text) < MIN_CHUNK_LENGTH THEN "Text too short"
    ELSE "ok"

ValidateChunkParametersRejectsMaximum(chunk_size, overlap) ==
    IF chunk_size <= 0 THEN "Chunk size must be a positive integer"
    ELSE IF overlap < 0 THEN "Overlap must be a non-negative integer"
    ELSE IF overlap >= chunk_size THEN "Overlap must be less than chunk size"
    ELSE IF chunk_size >= MAX_CHUNK_SIZE THEN "Chunk size cannot exceed MAX_CHUNK_SIZE words"
    ELSE "ok"

ValidateChunkParameters(chunk_size, overlap) ==
    IF chunk_size <= 0 THEN "Chunk size must be a positive integer"
    ELSE IF overlap < 0 THEN "Overlap must be a non-negative integer"
    ELSE IF overlap >= chunk_size THEN "Overlap must be less than chunk size"
    ELSE IF chunk_size > MAX_CHUNK_SIZE THEN "Chunk size cannot exceed MAX_CHUNK_SIZE words"
    ELSE "ok"

\* line 155: a window is kept when it has MIN_CHUNK_LENGTH characters or more
KeepChunk(chunk) == Len(chunk) >= MIN_CHUNK_LENGTH

\* lines 155-156
AddChunk(chunks, chunk) == IF KeepChunk(chunk) THEN Append(chunks, chunk) ELSE chunks

WindowSkipsFirstWord(words, i, chunk_size) ==
    Strip(Join(Slice(words, i + 1, i + chunk_size)))

\* lines 151-152: the window that starts at word offset i
Window(words, i, chunk_size) == Strip(Join(Slice(words, i, i + chunk_size)))

RECURSIVE ChunkLoopStopsEarly(_, _, _, _, _)
ChunkLoopStopsEarly(words, i, chunk_size, step_size, chunks) ==
    IF i >= Len(words) THEN chunks
    ELSE IF i + chunk_size + 1 >= Len(words)
    THEN AddChunk(chunks, Window(words, i, chunk_size))
    ELSE ChunkLoopStopsEarly(words, i + step_size, chunk_size, step_size,
                             AddChunk(chunks, Window(words, i, chunk_size)))

\* the loop "for i in range(0, total_words, step_size)", from offset i on
RECURSIVE ChunkLoop(_, _, _, _, _)
ChunkLoop(words, i, chunk_size, step_size, chunks) ==
    IF i >= Len(words) THEN chunks
    ELSE IF i + chunk_size >= Len(words)
    THEN AddChunk(chunks, Window(words, i, chunk_size))
    ELSE ChunkLoop(words, i + step_size, chunk_size, step_size,
                   AddChunk(chunks, Window(words, i, chunk_size)))

RECURSIVE WindowStartsWithoutBreak(_, _, _, _)
WindowStartsWithoutBreak(total_words, i, chunk_size, step_size) ==
    IF i >= total_words THEN <<>>
    ELSE <<i>> \o WindowStartsWithoutBreak(total_words, i + step_size, chunk_size, step_size)

\* the word offsets i at which the loop of lines 149-160 cuts a window, from
\* offset i on: range(0, total_words, step_size) left by the break of line 160
RECURSIVE WindowStarts(_, _, _, _)
WindowStarts(total_words, i, chunk_size, step_size) ==
    IF i >= total_words THEN <<>>
    ELSE IF i + chunk_size >= total_words THEN <<i>>
    ELSE <<i>> \o WindowStarts(total_words, i + step_size, chunk_size, step_size)

ChunkWordsStepsOneFurther(text, words, chunk_size, overlap) ==
    IF Len(words) <= chunk_size
    THEN [err |-> "ok", chunks |-> <<Strip(text)>>]
    ELSE [err |-> "ok",
          chunks |-> ChunkLoop(words, 0, chunk_size, chunk_size - overlap + 1, <<>>)]

ChunkWordsRejoins(text, words, chunk_size, overlap) ==
    IF Len(words) <= chunk_size
    THEN [err |-> "ok", chunks |-> <<Join(words)>>]
    ELSE [err |-> "ok",
          chunks |-> ChunkLoop(words, 0, chunk_size, chunk_size - overlap, <<>>)]

\* lines 139-163, the text and its parameters being valid
ChunkWords(text, words, chunk_size, overlap) ==
    IF Len(words) <= chunk_size
    THEN [err |-> "ok", chunks |-> <<Strip(text)>>]
    ELSE [err |-> "ok",
          chunks |-> ChunkLoop(words, 0, chunk_size, chunk_size - overlap, <<>>)]

\* chunk_text: [err |-> message or "ok", chunks |-> the list returned]
chunk_text(text, chunk_size, overlap) ==
    IF ValidateTextInput(text) # "ok"
    THEN [err |-> ValidateTextInput(text), chunks |-> <<>>]
    ELSE IF ValidateChunkParameters(chunk_size, overlap) # "ok"
    THEN [err |-> ValidateChunkParameters(chunk_size, overlap), chunks |-> <<>>]
    ELSE ChunkWords(text, Split(text), chunk_size, overlap)

(***************************************************************************)
(* The embedding model and the FAISS index                                 *)
(***************************************************************************)
Count(s, c) == Cardinality({i \in 1..Len(s) : s[i] = c})

\* SentenceTransformer.encode of one string: deterministic, fixed dimension
Embed(s) == <<Count(s, "a"), Count(s, "b")>>

\* embedding_model.encode(list): one row per string, in the order given
Encode(strings) == [i \in 1..Len(strings) |-> Embed(strings[i])]

\* embeddings.shape[1]
Dimension(embeddings) == Len(embeddings[1])

Dot(u, v) == u[1] * v[1] + u[2] * v[2]

\* A score is the real number num / sqrt(sq), sq > 0.
\* Inner product of the two L2-normalised vectors (normalize_L2 leaves a
\* zero vector as it is, whose inner product with anything is 0).
InnerProduct(u, v) ==
    IF Dot(u, u) * Dot(v, v) = 0 THEN [num |-> 0, sq |-> 1]
    ELSE [num |-> Dot(u, v), sq |-> Dot(u, u) * Dot(v, v)]

\* the float threshold n / ThresholdDen as a score
AsScore(n) == [num |-> n, sq |-> ThresholdDen * ThresholdDen]

\* x > y on the reals the two scores stand for
Greater(x, y) ==
    IF x.num > 0 /\ y.num <= 0 THEN TRUE
    ELSE IF x.num <= 0 /\ y.num > 0 THEN FALSE
    ELSE IF x.num > 0 THEN x.num * x.num * y.sq > y.num * y.num * x.sq
    ELSE x.num * x.num * y.sq < y.num * y.num * x.sq

\* the score FAISS reports with the label -1 when it has fewer than k vectors
MinusInfinity == [num |-> -2, sq |-> 1]

\* self.index = None
None == [present |-> FALSE, vectors |-> <<>>]

\* self.embedding_dimension = None
NoDimension == 0

\* _create_faiss_index: an IndexFlatIP holding the normalised rows, in order
CreateFaissIndex(embeddings) == [present |-> TRUE, vectors |-> embeddings]

\* The order FAISS gives two equal scores is not set by this code nor by the
\* documented contract of Index.search; it is fixed for a given build of the
\* library.  The two orders are the two values of tie_order.
TieOrders == {"lower_index_first", "higher_index_first"}

\* the inner product of the query with every vector of the index
Scores(idx, q) == [i \in 1..Len(idx.vectors) |-> InnerProduct(q, idx.vectors[i])]

BeforeWorstFirst(scores, order, i, j) ==
    \/ Greater(scores[j], scores[i])
    \/ /\ ~Greater(scores[i], scores[j])
       /\ IF order = "lower_index_first" THEN i < j ELSE i > j

\* vector i is reported before vector j: the higher inner product first
Before(scores, order, i, j) ==
    \/ Greater(scores[i], scores[j])
    \/ /\ ~Greater(scores[j], scores[i])
       /\ IF order = "lower_index_first" THEN i < j ELSE i > j

\* the vector reported in place r (1 the best)
Ranked(scores, order, r) ==
    CHOOSE i \in 1..Len(scores) :
        Cardinality({j \in 1..Len(scores) : Before(scores, order, j, i)}) = r - 1

\* one row of the answer: the 0-based label of vector i and its score
Row(scores, i) == [idx |-> i - 1, score |-> scores[i]]

\* the k rows [idx, score] of the answer, best first; the label is -1 where
\* the index has fewer than k vectors
TopRows(scores, k, order) ==
    [r \in 1..k |->
        IF r <= Len(scores) THEN Row(scores, Ranked(scores, order, r))
        ELSE [idx |-> -1, score |-> MinusInfinity]]

\* index.search(q, k)
Search(idx, q, k, order) == TopRows(Scores(idx, q), k, order)

(***************************************************************************)
(* The VectorDB object: db = [chunks, index, embedding_dimension,          *)
(* is_indexed].  A method is an operator from the object the call finds to *)
(* [db, message, results]: the object it leaves, "ok" or the text of the   *)
(* VectorDBError it raises, and the list it returns.                       *)
(***************************************************************************)
\* __init__, lines 57-60
NewVectorDB ==
    [chunks |-> <<>>, index |-> None, embedding_dimension |-> NoDimension,
     is_indexed |-> FALSE]

Returns(db, results) == [db |-> db, message |-> "ok", results |-> results]

Raises(db, message) == [db |-> db, message |-> message, results |-> <<>>]

\* the class of the exception a call ends with: every raise statement of the
\* module raises VectorDBError, the only exception class it defines
ErrorKind(message) == IF message = "ok" THEN "none" ELSE "VectorDBError"

\* _cleanup_failed_index
CleanupFailedIndex(db) ==
    [chunks |-> <<>>, index |-> None, embedding_dimension |-> NoDimension,
     is_indexed |-> FALSE]

SkipRebuildNever(db) == FALSE

SkipRebuildWhenChunksHeld(db) == db.is_indexed \/ db.chunks # <<>>

\* line 210: "if self.is_indexed: ... return"
SkipRebuild(db) == db.is_indexed

OnEncodeErrorSaysTextTooShort(db) == Raises(CleanupFailedIndex(db), "Text too short")

\* lines 227-229 raise: caught by "except Exception", which cleans up
OnEncodeError(db) ==
    Raises(CleanupFailedIndex(db), "Unexpected error during index building")

OnFaissErrorMarksIndexed(db) ==
    Raises([db EXCEPT !.is_indexed = TRUE], "Failed to create FAISS index")

\* line 235 raises: _create_faiss_index has wrapped the failure in a
\* VectorDBError, which "except VectorDBError: raise" passes on as it is
OnFaissError(db) == Raises(db, "Failed to create FAISS index")

\* lines 235-238, nothing raising
FinishBuild(db, embeddings) ==
    [db EXCEPT !.index = CreateFaissIndex(embeddings), !.is_indexed = TRUE]

\* lines 231-238: embeddings is what encode returned
IndexEmbeddings(db, embeddings, fault) ==
    IF fault = "faiss"
    THEN OnFaissError([db EXCEPT !.embedding_dimension = Dimension(embeddings)])
    ELSE Returns(FinishBuild([db EXCEPT !.embedding_dimension = Dimension(embeddings)],
                             embeddings), <<>>)

BuildFromChunksClearsFirst(db, r, fault) ==
    IF r.err # "ok" THEN Raises([db EXCEPT !.chunks = <<>>], r.err)
    ELSE IF r.chunks = <<>>
    THEN Raises([db EXCEPT !.chunks = r.chunks], "No valid chunks created from input text")
    ELSE IF fault = "encode" THEN OnEncodeError([db EXCEPT !.chunks = r.chunks])
    ELSE IndexEmbeddings([db EXCEPT !.chunks = r.chunks], Encode(r.chunks), fault)

BuildFromChunksAcceptsEmpty(db, r, fault) ==
    IF r.err # "ok" THEN Raises(db, r.err)
    ELSE IF r.chunks = <<>> THEN Returns([db EXCEPT !.chunks = r.chunks], <<>>)
    ELSE IF fault = "encode" THEN OnEncodeError([db EXCEPT !.chunks = r.chunks])
    ELSE IndexEmbeddings([db EXCEPT !.chunks = r.chunks], Encode(r.chunks), fault)

\* lines 218-229: r is what chunk_text gave
BuildFromChunks(db, r, fault) ==
    IF r.err # "ok" THEN Raises(db, r.err)
    ELSE IF r.chunks = <<>>
    THEN Raises([db EXCEPT !.chunks = r.chunks], "No valid chunks created from input text")
    ELSE IF fault = "encode" THEN OnEncodeError([db EXCEPT !.chunks = r.chunks])
    ELSE IndexEmbeddings([db EXCEPT !.chunks = r.chunks], Encode(r.chunks), fault)

\* build_index; fault says what fails inside this call, if it gets there:
\* "encode" the embedding model, "faiss" the construction of the FAISS index
build_index(db, text, chunk_size, overlap, fault) ==
    IF SkipRebuild(db) THEN Returns(db, <<>>)
    ELSE BuildFromChunks(db, chunk_text(text, chunk_size, overlap), fault)

IndexNotAvailableNever(db) == FALSE

\* line 304
IndexNotAvailable(db) == ~db.is_indexed \/ ~db.index.present

ValidateRetrievalParametersRejectsLargeTopK(query, top_k, threshold, chunk_count) ==
    IF Strip(query) = <<>> THEN "Query must be a non-empty string"
    ELSE IF top_k <= 0 THEN "top_k must be a positive integer"
    ELSE IF threshold < 0 \/ threshold > ThresholdDen
    THEN "Threshold must be a number between 0 and 1"
    ELSE IF top_k > chunk_count THEN "top_k exceeds available chunks"
    ELSE "ok"

\* _validate_retrieval_parameters; top_k above chunk_count only logs a warning
ValidateRetrievalParameters(query, top_k, threshold, chunk_count) ==
    IF Strip(query) = <<>> THEN "Query must be a non-empty string"
    ELSE IF top_k <= 0 THEN "top_k must be a positive integer"
    ELSE IF threshold < 0 \/ threshold > ThresholdDen
    THEN "Threshold must be a number between 0 and 1"
    ELSE "ok"

PassesThresholdInclusive(score, threshold) == ~Greater(AsScore(threshold), score)

PassesThresholdBelow(score, threshold) == Greater(AsScore(threshold), score)

\* line 326: score > threshold
PassesThreshold(score, threshold) == Greater(score, AsScore(threshold))

CollectIgnoresThreshold(chunkList, row, threshold, results) ==
    IF row.idx < Len(chunkList) THEN Append(results, PyItem(chunkList, row.idx))
    ELSE results

\* lines 326-327, one row of the search
Collect(chunkList, row, threshold, results) ==
    IF row.idx < Len(chunkList) /\ PassesThreshold(row.score, threshold)
    THEN Append(results, PyItem(chunkList, row.idx))
    ELSE results

\* lines 324-327
RECURSIVE CollectResults(_, _, _, _)
CollectResults(chunkList, rows, threshold, results) ==
    IF rows = <<>> THEN results
    ELSE CollectResults(chunkList, Tail(rows), threshold,
                        Collect(chunkList, Head(rows), threshold, results))

\* line 320: the k handed to index.search
SearchK(top_k, chunk_count) == Min2(top_k, chunk_count)

retrieveKeepsOnlyResults(db, query, top_k, threshold, encode_raises, order) ==
    IF IndexNotAvailable(db)
    THEN Raises(db, "Index not available - build index first")
    ELSE IF ValidateRetrievalParameters(query, top_k, threshold, Len(db.chunks)) # "ok"
    THEN Raises(db, ValidateRetrievalParameters(query, top_k, threshold, Len(db.chunks)))
    ELSE IF encode_raises THEN Raises(db, "Unexpected error during retrieval")
    ELSE Returns([db EXCEPT !.chunks =
                      CollectResults(db.chunks,
                          Search(db.index, Embed(query),
                                 SearchK(top_k, Len(db.chunks)), order),
                          threshold, <<>>)],
                 CollectResults(db.chunks,
                     Search(db.index, Embed(query),
                            SearchK(top_k, Len(db.chunks)), order),
                     threshold, <<>>))

\* retrieve; encode_raises says whether the embedding model fails in this
\* call, order is the tie order of the FAISS build
retrieve(db, query, top_k, threshold, encode_raises, order) ==
    IF IndexNotAvailable(db)
    THEN Raises(db, "Index not available - build index first")
    ELSE IF ValidateRetrievalParameters(query, top_k, threshold, Len(db.chunks)) # "ok"
    THEN Raises(db, ValidateRetrievalParameters(query, top_k, threshold, Len(db.chunks)))
    ELSE IF encode_raises THEN Raises(db, "Unexpected error during retrieval")
    ELSE Returns(db, CollectResults(db.chunks,
                         Search(db.index, Embed(query),
                                SearchK(top_k, Len(db.chunks)), order),
                         threshold, <<>>))

ResetKeepsDimension(db) ==
    Returns([chunks |-> <<>>, index |-> None,
             embedding_dimension |-> db.embedding_dimension,
             is_indexed |-> FALSE], <<>>)

ResetKeepsBuiltFlag(db) ==
    Returns([chunks |-> <<>>, index |-> None, embedding_dimension |-> NoDimension,
             is_indexed |-> db.is_indexed], <<>>)

\* reset: list.clear() on a list cannot raise, so the except branch is dead
reset(db) ==
    Returns([chunks |-> <<>>, index |-> None, embedding_dimension |-> NoDimension,
             is_indexed |-> FALSE], <<>>)

(***************************************************************************)
(* Inputs                                                                  *)
(***************************************************************************)
SP == <<" ">>
A5 == Rep("a", 5)
B5 == Rep("b", 5)

TextEmpty == <<>>
TextBlank == Rep(" ", 3)
\* "aa bb"
TextShort == Rep("a", 2) \o SP \o Rep("b", 2)
\* "aa" and eight spaces
TextPadded == Rep("a", 2) \o Rep(" ", 8)
\* " aaaaa  bbbbb "
TextTwo == SP \o A5 \o SP \o SP \o B5 \o SP
\* "aaaaa bbbbb aabbb"
TextThree == A5 \o SP \o B5 \o SP \o Rep("a", 2) \o Rep("b", 3)
\* "aaaaa bbbbb aaaaa bbbbb"
TextFour == A5 \o SP \o B5 \o SP \o A5 \o SP \o B5
\* "aaaaaaaaaa bbbbbbbbbb aaaaaabbbbbbbb"
TextLong == Rep("a", 10) \o SP \o Rep("b", 10) \o SP \o Rep("a", 6) \o Rep("b", 8)

\* the documents handed to build_index
Texts == {TextBlank, TextPadded, TextThree, TextFour, TextLong}

\* "aaaaa bbbbb aabbb abbbb aaabb aaaab ababa"
TextSeven ==
    A5 \o SP \o B5 \o SP \o <<"a", "a", "b", "b", "b">> \o SP
       \o <<"a", "b", "b", "b", "b">> \o SP \o <<"a", "a", "a", "b", "b">> \o SP
       \o <<"a", "a", "a", "a", "b">> \o SP \o <<"a", "b", "a", "b", "a">>

\* "aaaaaaaa a b bbbbbbbb"
TextGap == Rep("a", 8) \o SP \o <<"a">> \o SP \o <<"b">> \o SP \o Rep("b", 8)

\* the texts handed to chunk_text on its own
ChunkTexts == Texts \cup {TextEmpty, TextShort, TextTwo, TextSeven, TextGap}

\* the chunk sizes and overlaps handed to chunk_text on its own
ChunkTextSizes == (0..(MaxChunkSizeArg + 1)) \cup {MAX_CHUNK_SIZE, MAX_CHUNK_SIZE + 1}
ChunkTextOverlaps == -1..(MaxOverlapArg + 1)

ChunkSizes == (0..MaxChunkSizeArg) \cup {MAX_CHUNK_SIZE + 1}
Overlaps == -1..MaxOverlapArg
Faults == {"none", "encode", "faiss"}

Queries == {<<>>, SP, <<"a">>, <<"a", "b">>}
TopKs == (0..MaxTopK) \cup {1000}
\* numerators n of the thresholds n / ThresholdDen: -0.1, 0, 0.6, 1, 1.1
Thresholds == {-1, 0, 6, 10, 11}

(***************************************************************************)
(* retrieve in steps, for calls that run at the same time.  A frame is one *)
(* call in flight: pc is the statement it is about to execute, and the     *)
(* rest its arguments and locals.  A step is an operator from the object   *)
(* and the frame to [db, frame], the object and the frame it leaves.       *)
(***************************************************************************)
NoFrame ==
    [pc |-> "idle", query |-> <<>>, top_k |-> 0, threshold |-> 0,
     encode_raises |-> FALSE, query_embedding |-> <<0, 0>>, rows |-> <<>>,
     results |-> <<>>, message |-> "ok", error |-> "none"]

\* the call is entered: nothing of the object is read yet
Enter(query, top_k, threshold, encode_raises) ==
    [NoFrame EXCEPT !.pc = "check", !.query = query, !.top_k = top_k,
                    !.threshold = threshold, !.encode_raises = encode_raises]

\* the call ends with a VectorDBError
Fail(frame, message) ==
    [frame EXCEPT !.pc = "done", !.message = message, !.results = <<>>,
                  !.error = "VectorDBError"]

WrappedLetsThrough(frame, exception) ==
    [frame EXCEPT !.pc = "done", !.message = exception, !.results = <<>>,
                  !.error = exception]

\* lines 339-342: an exception of another class raised inside the try block
\* reaches the caller as a VectorDBError
Wrapped(frame, exception) == Fail(frame, "Unexpected error during retrieval")

\* lines 304-305
CheckIndexStep(db, frame) ==
    [db |-> db,
     frame |-> IF IndexNotAvailable(db)
               THEN Fail(frame, "Index not available - build index first")
               ELSE [frame EXCEPT !.pc = "validate"]]

\* line 308
ValidateStep(db, frame) ==
    [db |-> db,
     frame |-> IF ValidateRetrievalParameters(frame.query, frame.top_k,
                                              frame.threshold, Len(db.chunks)) # "ok"
               THEN Fail(frame, ValidateRetrievalParameters(frame.query, frame.top_k,
                                    frame.threshold, Len(db.chunks)))
               ELSE [frame EXCEPT !.pc = "encode"]]

\* lines 311-316
EncodeStep(db, frame) ==
    [db |-> db,
     frame |-> IF frame.encode_raises
               THEN Wrapped(frame, "RuntimeError")
               ELSE [frame EXCEPT !.pc = "search",
                                  !.query_embedding = Embed(frame.query)]]

\* lines 319-321; self.index.search on None is an AttributeError, which
\* "except Exception" turns into a VectorDBError
SearchStep(db, frame, order) ==
    [db |-> db,
     frame |-> IF ~db.index.present
               THEN Wrapped(frame, "AttributeError")
               ELSE [frame EXCEPT !.pc = "collect",
                                  !.rows = Search(db.index, frame.query_embedding,
                                                  SearchK(frame.top_k, Len(db.chunks)),
                                                  order)]]

CollectStepDropsLastChunk(db, frame) ==
    IF frame.rows = <<>> THEN [db |-> db, frame |-> [frame EXCEPT !.pc = "done"]]
    ELSE [db |-> [db EXCEPT !.chunks = SubSeq(db.chunks, 1, Len(db.chunks) - 1)],
          frame |-> IF /\ Head(frame.rows).idx < Len(db.chunks)
                       /\ PassesThreshold(Head(frame.rows).score, frame.threshold)
                    THEN [frame EXCEPT !.pc = "append"]
                    ELSE [frame EXCEPT !.rows = Tail(frame.rows)]]

\* lines 325-326, the test of one turn of the loop, and lines 332-335 when
\* the rows are exhausted
CollectStep(db, frame) ==
    [db |-> db,
     frame |-> IF frame.rows = <<>> THEN [frame EXCEPT !.pc = "done"]
               ELSE IF /\ Head(frame.rows).idx < Len(db.chunks)
                       /\ PassesThreshold(Head(frame.rows).score, frame.threshold)
               THEN [frame EXCEPT !.pc = "append"]
               ELSE [frame EXCEPT !.rows = Tail(frame.rows)]]

\* list[idx] of Python raises no IndexError
InRange(list, idx) == -Len(list) <= idx /\ idx < Len(list)

\* line 327: self.chunks is read again; an index it no longer has is an
\* IndexError
AppendStep(db, frame) ==
    [db |-> db,
     frame |-> IF InRange(db.chunks, Head(frame.rows).idx)
               THEN [frame EXCEPT !.pc = "collect", !.rows = Tail(frame.rows),
                                  !.results = Append(frame.results,
                                                  PyItem(db.chunks, Head(frame.rows).idx))]
               ELSE Wrapped(frame, "IndexError")]

\* reset in steps: the object after each of its four assignments
ResetIndexStep(db) == [db EXCEPT !.index = None]
ResetChunksStep(db) == [db EXCEPT !.chunks = <<>>]
ResetFlagStep(db) == [db EXCEPT !.is_indexed = FALSE]
ResetDimensionStep(db) == [db EXCEPT !.embedding_dimension = NoDimension]

(***************************************************************************)
(* file_processor.py                                                       *)
(***************************************************************************)
\* chr(n) for the code points of the modelled files
Chr(n) ==
    IF n = 32 THEN " "
    ELSE IF n = 97 THEN "a"
    ELSE IF n = 98 THEN "b"
    ELSE IF n = 169 THEN "copyright sign"
    ELSE IF n = 195 THEN "A with tilde"
    ELSE "e with acute"

\* ord(c) of the ASCII characters of the modelled texts
Ord(c) == IF c = " " THEN 32 ELSE IF c = "a" THEN 97 ELSE 98

\* text.encode() of an ASCII text
AsBytes(text) == [i \in 1..Len(text) |-> Ord(text[i])]

\* bytes.decode("utf-8"): one-byte and two-byte sequences; ok is FALSE where
\* Python raises UnicodeDecodeError
RECURSIVE Utf8Decode(_)
Utf8Decode(data) ==
    IF data = <<>> THEN [ok |-> TRUE, text |-> <<>>]
    ELSE IF data[1] < 128
    THEN LET rest == Utf8Decode(Tail(data))
         IN  [ok |-> rest.ok, text |-> <<Chr(data[1])>> \o rest.text]
    ELSE IF data[1] \in 194..223 /\ Len(data) >= 2 /\ data[2] \in 128..191
    THEN LET rest == Utf8Decode(SubSeq(data, 3, Len(data)))
         IN  [ok |-> rest.ok,
              text |-> <<Chr((data[1] - 192) * 64 + (data[2] - 128))>> \o rest.text]
    ELSE [ok |-> FALSE, text |-> <<>>]

\* bytes.decode("latin-1", errors="ignore"): every byte is its code point
Latin1Decode(data) == [i \in 1..Len(data) |-> Chr(data[i])]

\* file_obj.read(): the bytes from the position on, the position moved to the end
Read(file) ==
    [data |-> SubSeq(file.data, file.pos + 1, Len(file.data)),
     file |-> [file EXCEPT !.pos = Len(file.data)]]

\* uploaded_file.seek(0)
Seek(file, pos) == [file EXCEPT !.pos = pos]

\* _extract_txt: the fallback reads the file object a second time
ExtractTxt(file) ==
    LET first == Read(file)
    IN  IF Utf8Decode(first.data).ok THEN Utf8Decode(first.data).text
        ELSE Latin1Decode(Read(first.file).data)

\* None
NoText == [present |-> FALSE, text |-> <<>>]

\* _EXTRACTORS; the PDF and DOCX extractors are not modelled and no modelled
\* file has their types
Extractors == {"text/plain"}

extract_text_from_file(uploaded_file) ==
    IF uploaded_file.type \notin Extractors THEN NoText
    ELSE LET text == ExtractTxt(Seek(uploaded_file, 0))
         IN  IF Strip(text) # <<>> THEN [present |-> TRUE, text |-> text] ELSE NoText

(***************************************************************************)
(* rag.py                                                                  *)
(***************************************************************************)
DEFAULT_TOP_K == 5
\* 0.2 as a numerator over ThresholdDen
DEFAULT_SIMILARITY_THRESHOLD == (2 * ThresholdDen) \div 10
MAX_CHAT_HISTORY == 10

\* EnhancedRAG.build_index: VectorDB.build_index with its default arguments
EnhancedRAG_build_index(db, text, fault) ==
    build_index(db, text, DEFAULT_CHUNK_SIZE, DEFAULT_OVERLAP, fault)

\* EnhancedRAG.reset_index
reset_index(db) == reset(db)

retrieve_contextLetsThrough(db, query, encode_raises, order) ==
    LET r == retrieve(db, query, DEFAULT_TOP_K, DEFAULT_SIMILARITY_THRESHOLD,
                      encode_raises, order)
    IN  [raised |-> r.message # "ok", chunks |-> r.results]

\* retrieve_context: VectorDB.retrieve with its default arguments, every
\* exception of it turned into the empty list
retrieve_context(db, query, encode_raises, order) ==
    LET r == retrieve(db, query, DEFAULT_TOP_K, DEFAULT_SIMILARITY_THRESHOLD,
                      encode_raises, order)
    IN  [raised |-> FALSE, chunks |-> IF r.message = "ok" THEN r.results ELSE <<>>]

\* a fixed text of the program, as a text of one character
Fixed(sentence) == <<sentence>>

NoContextText == Fixed("No relevant context found in the uploaded document.")

\* "\n\n".join(context)
RECURSIVE JoinParagraphs(_)
JoinParagraphs(context) ==
    IF context = <<>> THEN <<>>
    ELSE IF Len(context) = 1 THEN context[1]
    ELSE context[1] \o <<"\n", "\n">> \o JoinParagraphs(Tail(context))

\* chat_history[-MAX_CHAT_HISTORY:]
RecentHistory(chat_history) ==
    IF Len(chat_history) > MAX_CHAT_HISTORY
    THEN SubSeq(chat_history, Len(chat_history) - MAX_CHAT_HISTORY + 1, Len(chat_history))
    ELSE chat_history

\* lines 241-247
ContextText(context) ==
    IF context # <<>> THEN JoinParagraphs(context) ELSE NoContextText

\* _build_conversation_messages: the history sent and the parts of the
\* current message
BuildConversationMessages(query, context, chat_history) ==
    [history |-> RecentHistory(chat_history),
     context_text |-> ContextText(context),
     question |-> query]

NoMessages == [history |-> <<>>, context_text |-> <<>>, question |-> <<>>]

\* re.sub(r"<think>.*?</think>", "", ...): the tags are single characters here
RECURSIVE RemoveThinking(_, _)
RemoveThinking(response, inside) ==
    IF response = <<>> THEN <<>>
    ELSE IF inside
    THEN RemoveThinking(Tail(response), Head(response) # "</think>")
    ELSE IF Head(response) = "<think>"
            /\ \E i \in 2..Len(response) : response[i] = "</think>"
    THEN RemoveThinking(Tail(response), TRUE)
    ELSE <<Head(response)>> \o RemoveThinking(Tail(response), FALSE)

\* clean_response: the thinking blocks removed and the text trimmed
clean_response(response) ==
    IF response = <<>> THEN <<>> ELSE Strip(RemoveThinking(response, FALSE))

\* what the Perplexity API does with a request: an answer, no response
\* (_make_api_request returns None) or a body that is not the expected JSON
ApiFailed == [kind |-> "failed", content |-> <<>>]
ApiMalformed == [kind |-> "malformed", content |-> <<>>]
ApiAnswer(content) == [kind |-> "answer", content |-> content]

generate_response(messages, api) ==
    IF api.kind = "answer" THEN clean_response(api.content)
    ELSE IF api.kind = "failed"
    THEN Fixed("Sorry, I encountered an error while generating the response.")
    ELSE Fixed("Sorry, I encountered an unexpected error. Please try again.")

Message(role, content) == [role |-> role, content |-> content]

\* EnhancedRAG.chat
chat(db, query, chat_history, api, encode_raises, order) ==
    IF query = <<>>
    THEN [response |-> Fixed("Please provide a valid question."),
          history |-> chat_history, messages |-> NoMessages]
    ELSE LET context == retrieve_context(db, query, encode_raises, order).chunks
             messages == BuildConversationMessages(query, context, chat_history)
             response == generate_response(messages, api)
         IN  [response |-> response,
              history |-> chat_history \o <<Message("user", query),
                                            Message("assistant", response)>>,
              messages |-> messages]

(***************************************************************************)
(* app.py                                                                  *)
(***************************************************************************)
MAX_FILE_SIZE_MB == 20

\* the upload widget holds no file
NoFile == [name |-> "None", type |-> "", data |-> <<>>, pos |-> 0, size_mb |-> 0]

\* st.session_state.document_stats = {}
NoStats == [characters |-> 0, words |-> 0, file_size_mb |-> 0]

\* _initialize_session_state
NewSession ==
    [file_processed |-> FALSE, current_document_name |-> "None",
     document_stats |-> NoStats]

\* _process_uploaded_file; an exception of build_index is caught at line 278
\* and leaves the session state as it was
ProcessUploadedFile(session, db, uploaded_file, fault) ==
    LET text == extract_text_from_file(uploaded_file)
    IN  IF text.present /\ Strip(text.text) # <<>>
        THEN LET built == EnhancedRAG_build_index(db, text.text, fault)
             IN  [db |-> built.db, text |-> text,
                  session |->
                      IF built.message # "ok" THEN session
                      ELSE [file_processed |-> TRUE,
                            current_document_name |-> uploaded_file.name,
                            document_stats |->
                                [characters |-> Len(text.text),
                                 words |-> Len(Split(text.text)),
                                 file_size_mb |-> uploaded_file.size_mb]]]
        ELSE [db |-> db, text |-> text, session |-> session]

\* _handle_file_upload: the file the widget holds is processed on every run
HandleFileUpload(session, db, uploaded_file, fault) ==
    IF uploaded_file = NoFile \/ uploaded_file.size_mb > MAX_FILE_SIZE_MB
    THEN [db |-> db, text |-> NoText, session |-> session]
    ELSE ProcessUploadedFile(session, db, uploaded_file, fault)

\* _remove_current_document, up to its st.rerun()
RemoveCurrentDocument(session, db) ==
    [db |-> reset_index(db).db, text |-> NoText, session |-> NewSession]

\* render_sidebar in one run of the script: the upload widget first, the
\* chat controls after it
RenderSidebar(session, db, uploaded_file, remove_doc, fault) ==
    LET uploaded == HandleFileUpload(session, db, uploaded_file, fault)
    IN  IF remove_doc
        THEN [RemoveCurrentDocument(uploaded.session, uploaded.db)
                EXCEPT !.text = uploaded.text]
        ELSE uploaded

(***************************************************************************)
(* State                                                                   *)
(***************************************************************************)
VARIABLES
    chunks,               \* self.chunks
    index,                \* self.index
    embedding_dimension,  \* self.embedding_dimension
    is_indexed,           \* self.is_indexed
    tie_order,            \* the tie order of the FAISS build in use
    last,                 \* the last call: its arguments and what it gave
    prev,                 \* what the call before the last one was
    inflight,             \* the frame of each thread's retrieve in steps
    resetting,            \* the statement a reset in steps is about to execute
    session,              \* st.session_state of the app
    uploader,             \* the file the upload widget holds
    ran,                  \* the last run of the app's script
    chat_history,         \* the history list handed to and returned by chat
    chatted               \* the last call of chat

vars ==
    <<chunks, index, embedding_dimension, is_indexed, tie_order, last, prev, inflight,
      resetting, session, uploader, ran, chat_history, chatted>>

\* the state of the app and of the conversation
front == <<session, uploader, ran, chat_history, chatted>>

\* the threads that call retrieve in steps
Threads == {1, 2}

Self ==
    [chunks |-> chunks, index |-> index,
     embedding_dimension |-> embedding_dimension, is_indexed |-> is_indexed]

NoCall ==
    [op |-> "none", text |-> <<>>, chunk_size |-> 0, overlap |-> 0,
     query |-> <<>>, top_k |-> 0, threshold |-> 0,
     message |-> "ok", results |-> <<>>]

\* what a later call needs to know of an earlier one
Kind(call) ==
    IF call.op = "reset" THEN "reset"
    ELSE IF call.op = "build_index" /\ call.message = "Failed to create FAISS index"
    THEN "faiss_failed_build"
    ELSE IF call.op = "build_index" /\ call.message # "ok" THEN "failed_build"
    ELSE "other"

NoRun == [event |-> "none", text |-> NoText, removed |-> FALSE]

NoChat ==
    [op |-> "none", query |-> <<>>, history |-> <<>>, response |-> <<>>,
     messages |-> NoMessages, raised |-> FALSE, failed |-> FALSE]

\* a new session of the app with no file in the widget, and no conversation
NoFront ==
    /\ session = NewSession
    /\ uploader = NoFile
    /\ ran = NoRun
    /\ chat_history = <<>>
    /\ chatted = NoChat

\* the call `call` is made and gives r
Called(call, r) ==
    /\ chunks' = r.db.chunks
    /\ index' = r.db.index
    /\ embedding_dimension' = r.db.embedding_dimension
    /\ is_indexed' = r.db.is_indexed
    /\ last' = [call EXCEPT !.message = r.message, !.results = r.results]
    /\ prev' = Kind(last)
    /\ UNCHANGED <<tie_order, inflight, resetting, front>>

Init ==
    /\ chunks = NewVectorDB.chunks
    /\ index = NewVectorDB.index
    /\ embedding_dimension = NewVectorDB.embedding_dimension
    /\ is_indexed = NewVectorDB.is_indexed
    /\ tie_order \in TieOrders
    /\ last = NoCall
    /\ prev = "other"
    /\ inflight = [t \in Threads |-> NoFrame]
    /\ resetting = "idle"
    /\ NoFront

\* chunk_text returns its list and touches no field
ChunkTextCall(db, r) == IF r.err = "ok" THEN Returns(db, r.chunks) ELSE Raises(db, r.err)

ChunkText ==
    \E text \in ChunkTexts, chunk_size \in ChunkTextSizes, overlap \in ChunkTextOverlaps :
        Called([NoCall EXCEPT !.op = "chunk_text", !.text = text,
                    !.chunk_size = chunk_size, !.overlap = overlap],
               ChunkTextCall(Self, chunk_text(text, chunk_size, overlap)))

BuildIndex ==
    \E text \in Texts, chunk_size \in ChunkSizes, overlap \in Overlaps,
       fault \in Faults :
        Called([NoCall EXCEPT !.op = "build_index", !.text = text,
                    !.chunk_size = chunk_size, !.overlap = overlap],
               build_index(Self, text, chunk_size, overlap, fault))

Retrieve ==
    \E query \in Queries, top_k \in TopKs, threshold \in Thresholds,
       encode_raises \in BOOLEAN :
        Called([NoCall EXCEPT !.op = "retrieve", !.query = query,
                    !.top_k = top_k, !.threshold = threshold],
               retrieve(Self, query, top_k, threshold, encode_raises, tie_order))

Reset == Called([NoCall EXCEPT !.op = "reset"], reset(Self))

\* the calls on one VectorDB object
Next == BuildIndex \/ Retrieve \/ Reset

Spec == Init /\ [][Next]_vars

\* The object one build_index of a three-chunk document leaves, the call
\* having succeeded, failed in the embedding model or failed in FAISS; or the
\* new object.
InitAfterBuild ==
    \E fault \in Faults \cup {"no build"} :
        LET r == IF fault = "no build" THEN Returns(NewVectorDB, <<>>)
                 ELSE build_index(NewVectorDB, TextLong, 1, 0, fault)
        IN  /\ chunks = r.db.chunks
            /\ index = r.db.index
            /\ embedding_dimension = r.db.embedding_dimension
            /\ is_indexed = r.db.is_indexed
            /\ tie_order \in TieOrders
            /\ last = IF fault = "no build" THEN NoCall
                      ELSE [NoCall EXCEPT !.op = "build_index", !.text = TextLong,
                                !.chunk_size = 1, !.message = r.message]
            /\ prev = "other"
            /\ inflight = [t \in Threads |-> NoFrame]
            /\ resetting = "idle"
            /\ NoFront

\* chunk_text called on a new, a built and a half-built object
SpecChunk == InitAfterBuild /\ [][ChunkText]_vars

\* the arguments of the retrieve calls made in steps
ConcurrentQueries == {<<>>, <<"a">>, <<"a", "b">>}
ConcurrentTopKs == {1, 2}
ConcurrentThresholds == {0, 6}

\* thread t takes the step that gives r
ThreadStep(t, r) ==
    /\ inflight' = [inflight EXCEPT ![t] = r.frame]
    /\ chunks' = r.db.chunks
    /\ index' = r.db.index
    /\ embedding_dimension' = r.db.embedding_dimension
    /\ is_indexed' = r.db.is_indexed
    /\ UNCHANGED <<tie_order, last, prev, resetting, front>>

\* a thread calls retrieve
Begin ==
    \E t \in Threads, query \in ConcurrentQueries, top_k \in ConcurrentTopKs,
       threshold \in ConcurrentThresholds, encode_raises \in BOOLEAN :
        /\ inflight[t].pc = "idle"
        /\ ThreadStep(t, [db |-> Self,
                          frame |-> Enter(query, top_k, threshold, encode_raises)])

CheckIndex ==
    \E t \in Threads :
        inflight[t].pc = "check" /\ ThreadStep(t, CheckIndexStep(Self, inflight[t]))

Validate ==
    \E t \in Threads :
        inflight[t].pc = "validate" /\ ThreadStep(t, ValidateStep(Self, inflight[t]))

EncodeQuery ==
    \E t \in Threads :
        inflight[t].pc = "encode" /\ ThreadStep(t, EncodeStep(Self, inflight[t]))

SearchIndex ==
    \E t \in Threads :
        inflight[t].pc = "search"
            /\ ThreadStep(t, SearchStep(Self, inflight[t], tie_order))

CollectRow ==
    \E t \in Threads :
        inflight[t].pc = "collect" /\ ThreadStep(t, CollectStep(Self, inflight[t]))

AppendRow ==
    \E t \in Threads :
        inflight[t].pc = "append" /\ ThreadStep(t, AppendStep(Self, inflight[t]))

\* the caller of thread t has its list or its error
Return ==
    \E t \in Threads :
        inflight[t].pc = "done" /\ ThreadStep(t, [db |-> Self, frame |-> NoFrame])

NextConcurrent ==
    \/ Begin \/ CheckIndex \/ Validate \/ EncodeQuery \/ SearchIndex \/ CollectRow
    \/ AppendRow \/ Return

\* retrieve calls of two threads, their steps interleaved, on the object one
\* build_index has left, with no build_index and no reset while they run
SpecConcurrent == InitAfterBuild /\ [][NextConcurrent]_vars

\* one statement of reset gives the object db and goes on to statement pc
ResetStep(db, pc) ==
    /\ chunks' = db.chunks
    /\ index' = db.index
    /\ embedding_dimension' = db.embedding_dimension
    /\ is_indexed' = db.is_indexed
    /\ resetting' = pc
    /\ UNCHANGED <<tie_order, last, prev, inflight, front>>

\* line 380, the first statement of a reset called on a third thread
ResetIndex == resetting = "idle" /\ ResetStep(ResetIndexStep(Self), "chunks")

\* line 381
ResetChunks == resetting = "chunks" /\ ResetStep(ResetChunksStep(Self), "flag")

\* line 382
ResetFlag == resetting = "flag" /\ ResetStep(ResetFlagStep(Self), "dimension")

\* line 383, after which reset returns
ResetDimension == resetting = "dimension" /\ ResetStep(ResetDimensionStep(Self), "idle")

NextResetInFlight ==
    NextConcurrent \/ ResetIndex \/ ResetChunks \/ ResetFlag \/ ResetDimension

\* retrieve calls of two threads and reset calls of a third, their
\* statements interleaved
SpecResetInFlight == InitAfterBuild /\ [][NextResetInFlight]_vars

\* the files a user uploads, all of type text/plain
TextFile(name, data, size_mb) ==
    [name |-> name, type |-> "text/plain", data |-> data, pos |-> 0, size_mb |-> size_mb]

DocF == TextFile("F.txt", AsBytes(TextLong), 1)
DocG == TextFile("G.txt", AsBytes(TextFour), 1)
\* "aaaaaaaaaa b" and the byte 0xE9, which is no UTF-8
DocLatin == TextFile("latin.txt", AsBytes(Rep("a", 10) \o SP \o <<"b">>) \o <<233>>, 1)
\* "aaaaaaaaaa b" and the two bytes of U+00E9 in UTF-8
DocAccent ==
    TextFile("accent.txt", AsBytes(Rep("a", 10) \o SP \o <<"b">>) \o <<195, 169>>, 1)
DocBlank == TextFile("blank.txt", AsBytes(TextBlank), 1)
DocShort == TextFile("short.txt", AsBytes(TextShort), 1)
\* a file over the size limit; data holds its first bytes
DocHuge == TextFile("huge.txt", AsBytes(TextFour), MAX_FILE_SIZE_MB + 1)

Files == {DocF, DocG, DocLatin, DocAccent, DocBlank, DocShort, DocHuge}

\* one run of the script with the widget holding uploaded_file
ScriptRun(uploaded_file, event, remove_doc, removed, fault) ==
    LET r == RenderSidebar(session, Self, uploaded_file, remove_doc, fault)
    IN  /\ chunks' = r.db.chunks
        /\ index' = r.db.index
        /\ embedding_dimension' = r.db.embedding_dimension
        /\ is_indexed' = r.db.is_indexed
        /\ session' = r.session
        /\ uploader' = uploaded_file
        /\ ran' = [event |-> event, text |-> r.text, removed |-> removed]
        /\ UNCHANGED <<tie_order, last, prev, inflight, resetting, chat_history, chatted>>

\* the user puts a file into the upload widget
Upload ==
    \E uploaded_file \in Files, fault \in Faults :
        ScriptRun(uploaded_file, "upload", FALSE, FALSE, fault)

\* the user takes the file out of the upload widget
ClearUploader == uploader # NoFile /\ ScriptRun(NoFile, "clear", FALSE, ran.removed, "none")

\* a run that no sidebar widget caused: st.rerun() or a chat message
Rerun == \E fault \in Faults : ScriptRun(uploader, "rerun", FALSE, ran.removed, fault)

\* the user presses Remove Document
RemoveDocument == \E fault \in Faults : ScriptRun(uploader, "remove", TRUE, TRUE, fault)

NextApp == Upload \/ ClearUploader \/ Rerun \/ RemoveDocument

\* the sidebar of the app over a new EnhancedRAG
SpecApp == Init /\ [][NextApp]_vars

\* the questions and the API's behaviours of the modelled conversations
ChatQueries == {<<>>, SP, <<"a">>}
ApiOutcomes ==
    {ApiAnswer(<<"<think>", "a", "</think>", " ", "b">>), ApiAnswer(<<>>),
     ApiFailed, ApiMalformed}

MaxTurns == 2

Chat ==
    \E query \in ChatQueries, api \in ApiOutcomes, encode_raises \in BOOLEAN :
        /\ Len(chat_history) < 2 * MaxTurns
        /\ LET r == chat(Self, query, chat_history, api, encode_raises, tie_order)
               context == retrieve_context(Self, query, encode_raises, tie_order)
               found == retrieve(Self, query, DEFAULT_TOP_K, DEFAULT_SIMILARITY_THRESHOLD,
                                 encode_raises, tie_order)
           IN  /\ chat_history' = r.history
               /\ chatted' = [op |-> "chat", query |-> query, history |-> chat_history,
                              response |-> r.response, messages |-> r.messages,
                              raised |-> query # <<>> /\ context.raised,
                              failed |-> found.message # "ok"]
        /\ UNCHANGED <<chunks, index, embedding_dimension, is_indexed, tie_order, last,
                       prev, inflight, resetting, session, uploader, ran>>

\* conversations with an EnhancedRAG whose VectorDB is new, built or half-built
SpecChat == InitAfterBuild /\ [][Chat]_vars

(***************************************************************************)
(* Properties                                                              *)
(***************************************************************************)
\* the empty, unbuilt object
Unbuilt ==
    /\ chunks = <<>>
    /\ index = None
    /\ embedding_dimension = NoDimension
    /\ is_indexed = FALSE

InternalBuildFailure ==
    {"Unexpected error during index building", "Failed to create FAISS index"}

\* C1: when build_index fails after chunking, because the embedding call or
\* the construction of the FAISS index raised, the object is back in the
\* empty, unbuilt state when the error reaches the caller.
C1_RolledBackAfterFailedBuild ==
    (last.op = "build_index" /\ last.message \in InternalBuildFailure) => Unbuilt

\* C2: build_index on an object that is already built returns without error
\* and changes no field, whatever text, chunk_size and overlap it is given.
C2_BuildOnBuiltIsNoOp ==
    [][(is_indexed /\ last'.op = "build_index") =>
          /\ last'.message = "ok"
          /\ chunks' = chunks
          /\ index' = index
          /\ embedding_dimension' = embedding_dimension
          /\ is_indexed' = is_indexed]_vars

\* a build_index that returned and left chunks that are not those of its text
C2_Witness ==
    /\ last.op = "build_index"
    /\ last.message = "ok"
    /\ is_indexed
    /\ chunks # chunk_text(last.text, last.chunk_size, last.overlap).chunks

\* C3: retrieve on an object that is not built raises the "index not
\* available" error and returns nothing, for every query, top_k, threshold.
\* (retrieve assigns no field, so the object after the call is the object
\* the call found.)
C3_RetrieveUnbuiltFails ==
    (last.op = "retrieve" /\ ~is_indexed) =>
        /\ last.message = "Index not available - build index first"
        /\ last.results = <<>>

\* retrieve with valid arguments right after reset
C3_Witness ==
    /\ prev = "reset"
    /\ last.op = "retrieve"
    /\ Strip(last.query) # <<>>
    /\ last.top_k >= 1
    /\ last.threshold \in 0..ThresholdDen
    /\ last.message = "Index not available - build index first"

\* C4: reset never raises and always ends in the empty, unbuilt state.
C4_ResetClearsAll ==
    last.op = "reset" => (last.message = "ok" /\ Unbuilt)

\* reset of the object a failed construction of the FAISS index left behind
C4_Witness ==
    /\ last.op = "reset"
    /\ prev = "faiss_failed_build"
    /\ Unbuilt

\* C5: a build_index that follows reset is not skipped: it validates and
\* chunks its own text, and when it returns the object is built from that
\* text alone: chunks = chunk_text(text), one embedding per chunk.
C5_BuildAfterResetRecomputes ==
    (prev = "reset" /\ last.op = "build_index") =>
        LET r == chunk_text(last.text, last.chunk_size, last.overlap)
        IN  /\ r.err # "ok" => last.message = r.err
            /\ last.message = "ok" =>
                  /\ r.err = "ok"
                  /\ is_indexed
                  /\ chunks = r.chunks
                  /\ chunks # <<>>
                  /\ index.present
                  /\ index.vectors = [i \in 1..Len(r.chunks) |-> Embed(r.chunks[i])]
                  /\ embedding_dimension = 2
            /\ last.message # "ok" => ~is_indexed

C5_Witness ==
    /\ prev = "reset"
    /\ last.op = "build_index"
    /\ last.message = "ok"
    /\ is_indexed
    /\ Len(chunks) >= 2

\* C6: whenever the built flag is set, the index is present, there is at
\* least one chunk, and the index holds exactly the embedding of chunk i at
\* position i, for every i.
C6_BuiltMeansOneEmbeddingPerChunk ==
    is_indexed =>
        /\ index.present
        /\ chunks # <<>>
        /\ Len(index.vectors) = Len(chunks)
        /\ \A i \in 1..Len(chunks) : index.vectors[i] = Embed(chunks[i])

\* a built object with several chunks after a further build_index
C6_Witness ==
    /\ is_indexed
    /\ Len(chunks) >= 2
    /\ last.op = "build_index"
    /\ chunks # chunk_text(last.text, last.chunk_size, last.overlap).chunks

\* the similarity of a query and a text: both embedded, normalised, multiplied
Similarity(query, text) == InnerProduct(Embed(query), Embed(text))

\* the scores of the last call's query against the chunks held
ChunkScore(i) == Similarity(last.query, chunks[i])

LastThreshold == AsScore(last.threshold)

\* the chunks scoring strictly above the last call's threshold
AboveThreshold == {i \in 1..Len(chunks) : Greater(ChunkScore(i), LastThreshold)}

\* the k of the last call's search
LastK == Min2(last.top_k, Len(chunks))

\* chunk i is in the top-K set however ties are ordered: fewer than K other
\* chunks score as much as it does
SurelyInTopK(i) ==
    Cardinality({j \in 1..Len(chunks) \ {i} : ~Greater(ChunkScore(i), ChunkScore(j))})
        < LastK

Returned == last.op = "retrieve" /\ last.message = "ok"

\* C7: retrieve returns only chunks that score strictly above the threshold,
\* and every chunk of the top-K set that does: a chunk whose score equals the
\* threshold is left out, and the number returned is the number of top-K
\* chunks above the threshold.
C7_ThresholdIsStrict ==
    Returned =>
        /\ \A r \in 1..Len(last.results) :
               Greater(Similarity(last.query, last.results[r]), LastThreshold)
        /\ \A i \in AboveThreshold :
               SurelyInTopK(i) => chunks[i] \in Range(last.results)
        /\ Len(last.results) = Min2(LastK, Cardinality(AboveThreshold))

\* a top-K chunk whose score equals the threshold exactly was left out while
\* another chunk was returned
C7_Witness ==
    /\ Returned
    /\ last.results # <<>>
    /\ \E i \in 1..Len(chunks) :
           /\ SurelyInTopK(i)
           /\ ~Greater(ChunkScore(i), LastThreshold)
           /\ ~Greater(LastThreshold, ChunkScore(i))
           /\ chunks[i] \notin Range(last.results)

\* C8: on a built index with n chunks, retrieve with a valid query and
\* threshold and any top_k >= 1, also one above n, is not rejected (it can
\* fail only when the embedding model fails) and returns at most
\* min(top_k, n) texts, each one of the chunks held.
C8_TopKAboveCountIsCapped ==
    (/\ last.op = "retrieve"
     /\ is_indexed
     /\ last.top_k >= 1
     /\ Strip(last.query) # <<>>
     /\ last.threshold \in 0..ThresholdDen) =>
        /\ last.message \in {"ok", "Unexpected error during retrieval"}
        /\ last.message = "ok" =>
              /\ Len(last.results) <= Min2(last.top_k, Len(chunks))
              /\ \A r \in 1..Len(last.results) : last.results[r] \in Range(chunks)

\* retrieve with top_k above the number of chunks returned every chunk
C8_Witness ==
    /\ Returned
    /\ is_indexed
    /\ Len(chunks) >= 2
    /\ last.top_k > Len(chunks)
    /\ Len(last.results) = Len(chunks)

ValidThresholds == Thresholds \cap (0..ThresholdDen)

\* what retrieve gives for the last call's query and top_k at threshold t
AtThreshold(t) == retrieve(Self, last.query, last.top_k, t, FALSE, tie_order).results

\* C9: for the same built index, query and top_k, a higher threshold never
\* gives more results and a lower one never gives fewer.
C9_RaisingThresholdNeverAddsResults ==
    Returned =>
        \A t \in ValidThresholds :
            /\ t >= last.threshold => Len(AtThreshold(t)) <= Len(last.results)
            /\ t <= last.threshold => Len(AtThreshold(t)) >= Len(last.results)

\* a higher threshold gives strictly fewer, but still some, results
C9_Witness ==
    /\ Returned
    /\ \E t \in ValidThresholds :
           /\ t > last.threshold
           /\ AtThreshold(t) # <<>>
           /\ Len(AtThreshold(t)) < Len(last.results)

\* chunk i comes before chunk j when ties go to the lower chunk index
LowerIndexFirst(i, j) ==
    \/ Greater(ChunkScore(i), ChunkScore(j))
    \/ ~Greater(ChunkScore(j), ChunkScore(i)) /\ i < j

\* the result when ties go to the lower chunk index: the top-K of that order,
\* those above the threshold, in that order
LowerIndexFirstResult ==
    LET n == Len(chunks)
        pos(i) == Cardinality({j \in 1..n : LowerIndexFirst(j, i)})
        picked == {i \in AboveThreshold : pos(i) < LastK}
        nth(r) == CHOOSE i \in picked :
                      Cardinality({j \in picked : LowerIndexFirst(j, i)}) = r - 1
    IN  [r \in 1..Cardinality(picked) |-> chunks[nth(r)]]

\* C10 as stated: retrieve returns the top_k highest-scoring chunks by
\* descending score, chunks of equal score in the order of their chunk index.
C10_TiesByLowerChunkIndex ==
    Returned => last.results = LowerIndexFirstResult

\* C10 amended: retrieve returns chunk texts in non-increasing score order,
\* each among the top_k highest-scoring chunks, and leaves out no chunk that
\* scores strictly more than one it returns; the order of equal scores is
\* the one FAISS reports.
C10_RankedByDescendingScore ==
    Returned =>
        /\ \A r \in 1..Len(last.results) : last.results[r] \in Range(chunks)
        /\ \A r \in 1..(Len(last.results) - 1) :
               ~Greater(Similarity(last.query, last.results[r + 1]),
                        Similarity(last.query, last.results[r]))
        /\ \A r \in 1..Len(last.results) :
               LET better == {i \in 1..Len(chunks) :
                                 Greater(ChunkScore(i),
                                         Similarity(last.query, last.results[r]))}
               IN  /\ Cardinality(better) < LastK
                   /\ \A i \in better : chunks[i] \in Range(last.results)

\* two results of different scores, cut from an index with more chunks than top_k
C10_Witness ==
    /\ Returned
    /\ Len(last.results) = 2
    /\ last.top_k < Len(chunks)
    /\ Greater(Similarity(last.query, last.results[1]),
               Similarity(last.query, last.results[2]))

\* what the last call gives when it is made again on the object as it is now,
\* the embedding model not failing
Again == retrieve(Self, last.query, last.top_k, last.threshold, FALSE, tie_order)

SameArguments(a, b) ==
    a.query = b.query /\ a.top_k = b.top_k /\ a.threshold = b.threshold

TextValidationMessages == {"Text cannot be empty or whitespace only", "Text too short"}

ChunkParameterMessages ==
    {"Chunk size must be a positive integer", "Overlap must be a non-negative integer",
     "Overlap must be less than chunk size", "Chunk size cannot exceed MAX_CHUNK_SIZE words"}

RetrievalParameterMessages ==
    {"Query must be a non-empty string", "top_k must be a positive integer",
     "Threshold must be a number between 0 and 1"}

\* the messages of the errors raised by the three _validate_ methods
ValidationMessages ==
    TextValidationMessages \cup ChunkParameterMessages \cup RetrievalParameterMessages

\* the text or the chunking parameters are malformed
MalformedChunkInput(text, chunk_size, overlap) ==
    \/ Strip(text) = <<>>
    \/ Len(text) < MIN_CHUNK_LENGTH
    \/ chunk_size <= 0
    \/ chunk_size > MAX_CHUNK_SIZE
    \/ overlap < 0
    \/ overlap >= chunk_size

\* the query, top_k or the threshold is malformed
MalformedRetrievalInput(query, top_k, threshold) ==
    Strip(query) = <<>> \/ top_k <= 0 \/ threshold < 0 \/ threshold > ThresholdDen

IndexState == <<chunks, index, embedding_dimension, is_indexed>>

\* the call that gave r was either not rejected by validation or left the
\* object as it is now
RejectedLeavesSelf(r) == r.message \in ValidationMessages => r.db = Self

\* C13: a chunk_text, build_index or retrieve call that is rejected for
\* malformed input raises and leaves chunks, index, embedding_dimension and
\* is_indexed as they were, on an empty, a half-built and a built object;
\* build_index on an unbuilt object and retrieve on a built one reject every
\* malformed input.
C13_RejectedCallLeavesStateAlone ==
    /\ [](/\ \A text \in ChunkTexts, chunk_size \in ChunkSizes, overlap \in Overlaps :
                 /\ RejectedLeavesSelf(build_index(Self, text, chunk_size, overlap, "none"))
                 /\ (~is_indexed /\ MalformedChunkInput(text, chunk_size, overlap))
                        => build_index(Self, text, chunk_size, overlap, "none").message
                               \in ValidationMessages
          /\ \A query \in Queries, top_k \in TopKs, threshold \in Thresholds :
                 /\ RejectedLeavesSelf(retrieve(Self, query, top_k, threshold,
                                                FALSE, tie_order))
                 /\ (is_indexed /\ MalformedRetrievalInput(query, top_k, threshold))
                        => retrieve(Self, query, top_k, threshold, FALSE, tie_order).message
                               \in ValidationMessages)
    /\ [][(last'.op = "chunk_text" /\ MalformedChunkInput(last'.text, last'.chunk_size,
                                                          last'.overlap))
              => /\ last'.message \in ValidationMessages
                 /\ UNCHANGED IndexState]_vars

\* chunk_text has rejected a text on a built index
C13_Witness ==
    /\ is_indexed
    /\ chunks # <<>>
    /\ last.op = "chunk_text"
    /\ last.message = "Text too short"

InternalFailureMessages ==
    InternalBuildFailure \cup {"Unexpected error during retrieval"}

BuildFailureMessages(r) ==
    IF r.err # "ok" THEN {r.err} \cap ValidationMessages
    ELSE IF r.chunks = <<>> THEN {"No valid chunks created from input text"}
    ELSE InternalBuildFailure

C15_ChunkTextFailsExactlyOnMalformedInput ==
    last.op = "chunk_text" =>
        IF MalformedChunkInput(last.text, last.chunk_size, last.overlap)
        THEN /\ last.message \in TextValidationMessages \cup ChunkParameterMessages
             /\ last.results = <<>>
        ELSE last.message = "ok"

\* chunk_text has rejected an overlap equal to the chunk size, the text being
\* valid
C15_Witness ==
    /\ last.op = "chunk_text"
    /\ last.overlap = last.chunk_size
    /\ last.chunk_size > 0
    /\ ValidateTextInput(last.text) = "ok"
    /\ last.message = "Overlap must be less than chunk size"

\* C16: chunk_text rejects a text whose length after trimming is below
\* MIN_CHUNK_LENGTH.
C16_TrimmedLengthIsChecked ==
    (last.op = "chunk_text" /\ Len(Strip(last.text)) < MIN_CHUNK_LENGTH)
        => last.message # "ok"

\* C17: every chunk chunk_text returns, and every chunk a built index holds,
\* has MIN_CHUNK_LENGTH characters or more.
C17_ChunksHaveMinimumLength ==
    /\ last.op = "chunk_text" =>
           \A i \in 1..Len(last.results) : Len(last.results[i]) >= MIN_CHUNK_LENGTH
    /\ is_indexed => \A i \in 1..Len(chunks) : Len(chunks[i]) >= MIN_CHUNK_LENGTH

\* the text of the last call is valid and every window of it is dropped
KeepsNothing(r) == r.err = "ok" /\ r.chunks = <<>>

\* C18: when build_index on an unbuilt object is given a valid text of which
\* chunk_text keeps no window, it raises "No valid chunks created from input
\* text", and the object is left unbuilt, without index and with an empty
\* chunk list.
C18_NoChunksFailsBuild ==
    (/\ last.op = "build_index"
     /\ KeepsNothing(chunk_text(last.text, last.chunk_size, last.overlap)))
        => \/ is_indexed /\ last.message = "ok"
           \/ /\ last.message = "No valid chunks created from input text"
              /\ ~is_indexed
              /\ index = None
              /\ chunks = <<>>

\* build_index has failed on a three-word text cut into one-word windows
C18_Witness ==
    /\ last.op = "build_index"
    /\ last.text = TextThree
    /\ last.chunk_size = 1
    /\ last.message = "No valid chunks created from input text"
    /\ ~is_indexed

\* C19: on a built index, with a valid query, top_k and threshold, when no
\* chunk scores above the threshold, retrieve returns the empty list and
\* raises nothing, unless the embedding model itself fails.
C19_NothingAboveThresholdGivesEmptyList ==
    (/\ last.op = "retrieve"
     /\ ~IndexNotAvailable(Self)
     /\ ~MalformedRetrievalInput(last.query, last.top_k, last.threshold)
     /\ AboveThreshold = {})
        => /\ Again = Returns(Self, <<>>)
           /\ last.message \in {"ok", "Unexpected error during retrieval"}
           /\ last.message = "ok" => last.results = <<>>

\* a retrieve has returned the empty list from an index whose best chunk
\* scores exactly the threshold
C19_Witness ==
    /\ Returned
    /\ last.results = <<>>
    /\ chunks # <<>>
    /\ AboveThreshold = {}
    /\ \E i \in 1..Len(chunks) : ~Greater(LastThreshold, ChunkScore(i))

\* the smallest integer not below a / b, for a >= 0 and b > 0
Ceil(a, b) == (a + b - 1) \div b

\* the windows the claim counts for n words
ExpectedWindows(n, chunk_size, overlap) ==
    IF n > chunk_size THEN Ceil(n - chunk_size, chunk_size - overlap) + 1 ELSE 1

\* word counts around the window boundaries of the default parameters
DefaultWordCounts == {601, 602, 1149, 1150, 1151, 1700, 1701, 2250, 2251}

RECURSIVE KeptWindows(_, _, _, _)
\* the windows at the offsets `starts`, those below MIN_CHUNK_LENGTH left out
KeptWindows(words, starts, chunk_size, kept) ==
    IF starts = <<>> THEN kept
    ELSE KeptWindows(words, Tail(starts), chunk_size,
                     AddChunk(kept, Window(words, Head(starts), chunk_size)))

\* the loop stops right after the first window that reaches the last word
StopsAtFirstWindowReachingEnd(n, starts, chunk_size) ==
    \A k \in 1..Len(starts) : (starts[k] + chunk_size >= n) <=> (k = Len(starts))

\* what C20 says of a chunk_text call that returned `results` for `words`
WindowCountIs(words, chunk_size, overlap, results) ==
    IF Len(words) <= chunk_size THEN Len(results) = 1
    ELSE /\ Len(WindowStarts(Len(words), 0, chunk_size, chunk_size - overlap))
                = ExpectedWindows(Len(words), chunk_size, overlap)
         /\ StopsAtFirstWindowReachingEnd(Len(words),
                WindowStarts(Len(words), 0, chunk_size, chunk_size - overlap), chunk_size)
         /\ results = KeptWindows(words,
                WindowStarts(Len(words), 0, chunk_size, chunk_size - overlap),
                chunk_size, <<>>)

\* C20: chunk_text on N words cuts ceil((N - c) / (c - o)) + 1 windows before
\* the short ones are dropped when N > c, the loop stopping right after the
\* first window that reaches the last word, and returns one chunk when
\* N <= c; with the defaults c = 600 and o = 50 that is
\* ceil((N - 600) / 550) + 1 windows for N > 600.
C20_WindowCount ==
    /\ (last.op = "chunk_text" /\ last.message = "ok")
           => WindowCountIs(Split(last.text), last.chunk_size, last.overlap, last.results)
    /\ \A n \in DefaultWordCounts :
           /\ Len(WindowStarts(n, 0, DEFAULT_CHUNK_SIZE,
                               DEFAULT_CHUNK_SIZE - DEFAULT_OVERLAP))
                  = Ceil(n - 600, 550) + 1
           /\ StopsAtFirstWindowReachingEnd(n,
                  WindowStarts(n, 0, DEFAULT_CHUNK_SIZE,
                               DEFAULT_CHUNK_SIZE - DEFAULT_OVERLAP),
                  DEFAULT_CHUNK_SIZE)

\* chunk_text has cut seven words into windows of three words that overlap by
\* one: ceil(4 / 2) + 1 = 3 windows, all kept
C20_Witness ==
    /\ last.op = "chunk_text"
    /\ last.message = "ok"
    /\ last.text = TextSeven
    /\ last.chunk_size = 3
    /\ last.overlap = 1
    /\ Len(last.results) = 3

\* what the call of frame `frame` gives when it runs alone on the object as
\* it is now
Alone(frame) ==
    retrieve(Self, frame.query, frame.top_k, frame.threshold, frame.encode_raises,
             tie_order)

\* C12: no step of a retrieve, of a call that ends with a list or of one that
\* ends with an error, changes chunks, index, embedding_dimension or
\* is_indexed; so a retrieve whose steps are interleaved with the steps of
\* another retrieve ends with the list or the error it gives when it runs
\* alone on the same index.
C12_ConcurrentRetrievesAreSerial ==
    /\ [](\A t \in Threads :
              inflight[t].pc = "done" =>
                  /\ inflight[t].message = Alone(inflight[t]).message
                  /\ inflight[t].results = Alone(inflight[t]).results
                  /\ Alone(inflight[t]).db = Self)
    /\ [][UNCHANGED IndexState]_vars

\* on a built index one retrieve has ended with two chunks while another,
\* with another query, is in the middle of its loop over the rows
C12_Witness ==
    /\ is_indexed
    /\ inflight[1].pc = "done"
    /\ Len(inflight[1].results) = 2
    /\ inflight[2].pc = "collect"
    /\ Len(inflight[2].rows) = 1
    /\ Len(inflight[2].results) = 1
    /\ inflight[2].query # inflight[1].query

\* the chunk_text call of the last step returned, its text having more words
\* than chunk_size
Windowed ==
    /\ last.op = "chunk_text"
    /\ last.message = "ok"
    /\ Len(Split(last.text)) > last.chunk_size

\* the words at the 0-based positions [from, to) of words
WordsAt(words, from, to) == [p \in 1..(to - from) |-> words[from + p]]

\* the words the claim gives window j (from 0) of n words
ExpectedWords(words, j, chunk_size, step) ==
    WordsAt(words, j * step, Min2(j * step + chunk_size, Len(words)))

\* the windows the claim gives a text, in increasing j
ExpectedChunks(words, chunk_size, overlap) ==
    [k \in 1..ExpectedWindows(Len(words), chunk_size, overlap) |->
        Join(ExpectedWords(words, k - 1, chunk_size, chunk_size - overlap))]

\* C21: when the text has more words than chunk_size, the list chunk_text
\* returns is, in increasing j, the windows of the words at positions
\* [j*step, min(j*step + chunk_size, N)), step = chunk_size - overlap, joined
\* by single spaces, with the windows below MIN_CHUNK_LENGTH left out; no
\* window is empty; 700 words cut by 600 with overlap 50 are cut at the
\* offsets 0 and 550.
C21_WindowsAreTheWordRanges ==
    /\ Windowed =>
           /\ last.results = SelectSeq(ExpectedChunks(Split(last.text), last.chunk_size,
                                                      last.overlap), KeepChunk)
           /\ \A k \in 1..ExpectedWindows(Len(Split(last.text)), last.chunk_size,
                                          last.overlap) :
                  ExpectedWords(Split(last.text), k - 1, last.chunk_size,
                                last.chunk_size - last.overlap) # <<>>
    /\ WindowStarts(700, 0, DEFAULT_CHUNK_SIZE, DEFAULT_CHUNK_SIZE - DEFAULT_OVERLAP)
           = <<0, 550>>
    /\ Min2(550 + DEFAULT_CHUNK_SIZE, 700) = 700

\* chunk_text has cut seven words by two with overlap one into six windows
C21_Witness ==
    /\ Windowed
    /\ last.text = TextSeven
    /\ last.chunk_size = 2
    /\ last.overlap = 1
    /\ Len(last.results) = 6
    /\ Split(last.results[6]) = WordsAt(Split(TextSeven), 5, 7)

\* the last n and the first n words of a chunk
LastWords(chunk, n) == SubSeq(Split(chunk), Len(Split(chunk)) - n + 1, Len(Split(chunk)))
FirstWords(chunk, n) == SubSeq(Split(chunk), 1, n)

\* chunks i and i + 1 of the list have chunk_size words each and the last
\* `overlap` words of the first are the first `overlap` words of the second
OverlapHolds(results, i, chunk_size, overlap) ==
    (Len(Split(results[i])) = chunk_size /\ Len(Split(results[i + 1])) = chunk_size)
        => LastWords(results[i], overlap) = FirstWords(results[i + 1], overlap)

C23_SingleChunkIsTrimmedText ==
    (/\ last.op = "chunk_text"
     /\ last.message = "ok"
     /\ Len(Split(last.text)) <= last.chunk_size)
        => last.results = <<Strip(last.text)>>

\* chunk_text has returned a two-word text with its double space in the middle
C23_Witness ==
    /\ last.op = "chunk_text"
    /\ last.message = "ok"
    /\ last.text = TextTwo
    /\ last.results = <<Strip(TextTwo)>>
    /\ last.results # <<Join(Split(TextTwo))>>

\* the word is one of the words of some chunk of the list
InSomeChunk(word, results) ==
    \E i \in 1..Len(results) : word \in Range(Split(results[i]))

\* C27 as stated: every word of a valid text is in some chunk returned.
C27_EveryWordIsReturned ==
    (last.op = "chunk_text" /\ last.message = "ok")
        => \A p \in 1..Len(Split(last.text)) :
               InSomeChunk(Split(last.text)[p], last.results)

\* the offsets of the windows that hold the word at 0-based position p
WindowsHolding(p, n, chunk_size, overlap) ==
    {i \in Range(WindowStarts(n, 0, chunk_size, chunk_size - overlap)) :
        i <= p /\ p < i + chunk_size}

\* C27, amended: every word position of a text of more than chunk_size words
\* lies in some window, none being skipped between windows or lost at the
\* end; a word is missing from the chunks returned only when every window
\* that holds it is shorter than MIN_CHUNK_LENGTH and was dropped.  A text of
\* chunk_size words or fewer is returned whole.
C27_WordsLostOnlyWithDroppedWindows ==
    (last.op = "chunk_text" /\ last.message = "ok") =>
        \A p \in 1..Len(Split(last.text)) :
            IF Len(Split(last.text)) <= last.chunk_size
            THEN InSomeChunk(Split(last.text)[p], last.results)
            ELSE /\ WindowsHolding(p - 1, Len(Split(last.text)), last.chunk_size,
                                   last.overlap) # {}
                 /\ \/ InSomeChunk(Split(last.text)[p], last.results)
                    \/ \A i \in WindowsHolding(p - 1, Len(Split(last.text)),
                                               last.chunk_size, last.overlap) :
                           ~KeepChunk(Window(Split(last.text), i, last.chunk_size))

\* chunk_text has cut three words by two: the second window, the word
\* "aabbb" alone, is dropped and the word is in no chunk
C27_Witness ==
    /\ Windowed
    /\ last.text = TextThree
    /\ last.chunk_size = 2
    /\ last.overlap = 0
    /\ Len(last.results) = 1
    /\ ~InSomeChunk(Split(TextThree)[3], last.results)

FailedBuilds == {"failed_build", "faiss_failed_build"}

\* the object is built from the chunks `chunkList` and nothing else
BuiltFrom(chunkList) ==
    /\ is_indexed
    /\ chunks = chunkList
    /\ index = CreateFaissIndex([i \in 1..Len(chunkList) |-> Embed(chunkList[i])])
    /\ embedding_dimension = 2

\* what C28 says of a build_index call whose chunk_text gave r
BuildsAnew(r) ==
    (r.err = "ok" /\ r.chunks # <<>> /\ last.message \notin InternalBuildFailure)
        => last.message = "ok" /\ BuiltFrom(r.chunks)

\* C28: a build_index that follows a failed build_index on the same object,
\* whatever made that one fail and with no reset between the two, is not
\* skipped: given a valid text that yields chunks, and the embedding model
\* and FAISS not failing in it, it returns with the object built from the
\* chunks and the embeddings of its own text alone.
C28_BuildAfterFailedBuildStartsAnew ==
    (prev \in FailedBuilds /\ last.op = "build_index")
        => BuildsAnew(chunk_text(last.text, last.chunk_size, last.overlap))

\* a build_index has succeeded right after one that failed in FAISS and left
\* its chunks behind
C28_Witness ==
    /\ prev = "faiss_failed_build"
    /\ last.op = "build_index"
    /\ last.message = "ok"
    /\ BuiltFrom(chunk_text(last.text, last.chunk_size, last.overlap).chunks)

\* the chunks of the index the calls in flight started on
ChunksBeforeReset == build_index(NewVectorDB, TextLong, 1, 0, "none").db.chunks

\* C30: a retrieve whose statements are interleaved with the statements of
\* reset ends either with a list of texts that were chunks of the index
\* before the reset, or with a VectorDBError; no text from elsewhere is
\* returned and no exception of another class reaches the caller.
C30_ResetInFlightGivesChunksOrVectorDBError ==
    \A t \in Threads :
        inflight[t].pc = "done" =>
            /\ inflight[t].error \in {"none", "VectorDBError"}
            /\ inflight[t].error = "none" <=> inflight[t].message = "ok"
            /\ \A i \in 1..Len(inflight[t].results) :
                   inflight[t].results[i] \in Range(ChunksBeforeReset)

\* a retrieve that had passed the test of line 326 found the chunk list
\* cleared at line 327 and ended with a VectorDBError
C30_Witness ==
    /\ chunks = <<>>
    /\ inflight[1].pc = "done"
    /\ ~inflight[1].encode_raises
    /\ inflight[1].rows # <<>>
    /\ inflight[1].message = "Unexpected error during retrieval"
    /\ inflight[1].error = "VectorDBError"

\* the last run of the script handed the widget's file to extract_text_from_file
Extracted ==
    ran.event # "none" /\ uploader # NoFile /\ uploader.size_mb <= MAX_FILE_SIZE_MB

\* a plain-text file whose bytes are no valid UTF-8
NotUtf8(file) == file.type = "text/plain" /\ ~Utf8Decode(file.data).ok

\* C24: for a plain-text upload whose bytes are not valid UTF-8,
\* extract_text_from_file returns the latin-1 decoding of all the bytes of the
\* file, not an empty or missing text.
C24_NonUtf8TextIsLatin1Decoded ==
    (Extracted /\ NotUtf8(uploader)) =>
        ran.text = [present |-> TRUE, text |-> Latin1Decode(uploader.data)]

\* the chunks build_index makes of the text of a file
ChunksOf(file) ==
    chunk_text(extract_text_from_file(file).text, DEFAULT_CHUNK_SIZE, DEFAULT_OVERLAP).chunks

\* C25: whenever file_processed is true and current_document_name is F, the
\* chunks the VectorDB holds are the chunks of F's text, also when F was
\* uploaded while an earlier document was still indexed.
C25_IndexedChunksAreThoseOfTheNamedDocument ==
    \A file \in Files :
        (session.file_processed /\ session.current_document_name = file.name) =>
            chunks = ChunksOf(file)

\* C26: once Remove Document has run, file_processed stays false and the
\* index stays unbuilt on every later run of the script until the user
\* uploads a file again, also on a rerun with the removed file still in the
\* upload widget.
C26_RemovedDocumentStaysRemoved ==
    ran.removed => (~session.file_processed /\ ~is_indexed /\ index = None)

\* the history the last chat was given, with the question and the answer
Extended ==
    chatted.history \o <<Message("user", chatted.query),
                         Message("assistant", chatted.response)>>

\* C29 as stated: retrieve_context never raises, and every chat on an unbuilt
\* index returns a response and the history extended by exactly the user and
\* the assistant entry, the prompt carrying the no-context fallback text.
C29_ChatOnUnbuiltIndexExtendsHistory ==
    (chatted.op = "chat" /\ IndexNotAvailable(Self)) =>
        /\ ~chatted.raised
        /\ chat_history = Extended
        /\ chatted.messages.context_text = NoContextText

\* C29: retrieve_context never raises. A chat with a non-empty question
\* returns a response and the history extended by exactly the user and the
\* assistant entry, and when retrieve failed (the index unbuilt, the question
\* blank, the model failing) the prompt carries the no-context fallback text;
\* a chat with the empty question returns the request for a valid question
\* and the history as it was given.
C29_ChatAnswersDespiteFailedRetrieval ==
    chatted.op = "chat" =>
        /\ ~chatted.raised
        /\ chatted.query # <<>> =>
            /\ chat_history = Extended
            /\ chatted.failed => chatted.messages.context_text = NoContextText
        /\ chatted.query = <<>> =>
            /\ chat_history = chatted.history
            /\ chatted.response = Fixed("Please provide a valid question.")

\* a second question, asked on an unbuilt index, was answered and recorded
C29_Witness ==
    /\ chatted.op = "chat"
    /\ IndexNotAvailable(Self)
    /\ chatted.query = <<"a">>
    /\ chatted.failed
    /\ Len(chatted.history) = 2
    /\ Len(chat_history) = 4
    /\ chatted.messages.context_text = NoContextText

====
